---- MODULE Spec2Model ----
(***************************************************************************)
(* Model of setup_gmail.py: the local OAuth2 redirect listener             *)
(* (CallbackHandler.do_GET, start_callback_server) and the orchestrating   *)
(* main() that waits for the callback, exchanges the code and persists.    *)
(*                                                                         *)
(* Strings are sequences of tokens, so that the substring test of line 34  *)
(* and the parsing of lines 36-37 are computed rather than assumed.        *)
(* An optional value (Python None / a value) is <<>> / <<v>>.              *)
(* Socket writes to the browser are assumed to succeed.                    *)
(***************************************************************************)
EXTENDS Integers, Sequences, FiniteSets, TLC

VARIABLES
    auth_code,        \* global auth_code (line 27): None or Some(code)
    server_stopped,   \* global server_stopped (line 28)
    lpc,              \* position of the Listener thread
    cur,              \* request the Listener is answering (code branch)
    log,              \* requests handled so far, with the status answered
    port_free,        \* whether port 8080 can be bound
    pc,               \* position of main()
    secrets,          \* state of the client-secret file
    elapsed,          \* time.time() - start_time
    naps,             \* wake-ups of time.sleep(1) that took one second
    browser_opened,   \* webbrowser.open was called
    posts,            \* POST bodies sent to the token endpoint
    response,         \* the response requests.post returned (line 186)
    token_response,   \* response.json() (line 188)
    message,          \* the failure line(s) printed to the terminal
    exit_code,        \* value returned by main(): None or Some(n)
    files             \* the five output files under CONFIG_DIR

vars == <<auth_code, server_stopped, lpc, cur, log, port_free, pc, secrets,
          elapsed, naps, browser_opened, posts, response, token_response, message,
          exit_code, files>>

shared_vars == <<auth_code, server_stopped>>
main_vars == <<pc, elapsed, naps, browser_opened, posts, response, token_response, message,
               exit_code, files>>

----------------------------------------------------------------------------
(* Bounds *)

MaxRequests == 2      \* requests the browser side sends in one run
LongWake == 150       \* a wake-up of time.sleep(1) delayed by the scheduler
MaxNaps == 2          \* wake-ups of time.sleep(1) that take just one second

----------------------------------------------------------------------------
(* Optional values and token strings *)

None == <<>>
Some(v) == <<v>>

\* s[i..] of a sequence
Drop(s, n) == SubSeq(s, n + 1, Len(s))

\* Python's `needle in haystack` on strings: a contiguous occurrence
Contains(needle, hay) ==
    \E i \in 0..(Len(hay) - Len(needle)) :
        SubSeq(hay, i + 1, i + Len(needle)) = needle

\* index of the first occurrence of token t in s, 0 when absent
RECURSIVE FirstIndex(_, _, _)
FirstIndex(s, t, i) ==
    IF i > Len(s) THEN 0
    ELSE IF s[i] = t THEN i
    ELSE FirstIndex(s, t, i + 1)

\* str.split(sep) on a token string
RECURSIVE Split(_, _)
Split(s, sep) ==
    LET k == FirstIndex(s, sep, 1)
    IN  IF k = 0 THEN <<s>>
        ELSE <<SubSeq(s, 1, k - 1)>> \o Split(Drop(s, k), sep)

----------------------------------------------------------------------------
(* Requests: the request target as the browser sends it *)

CALLBACK_PATH == <<"/oauth", "/callback">>

\* one name=value field of a query string
Field(name, value) == <<name, "=">> \o value

RECURSIVE JoinFields(_)
JoinFields(fs) ==
    IF fs = <<>> THEN <<>>
    ELSE IF Len(fs) = 1 THEN Field(fs[1][1], fs[1][2])
    ELSE Field(fs[1][1], fs[1][2]) \o <<"&">> \o JoinFields(Tail(fs))

\* a request: its path and its query fields <<name, value>> in order
Req(path, query) == [path |-> path, query |-> query]

\* self.path: the raw request target
RawPath(r) ==
    IF r.query = <<>> THEN r.path
    ELSE r.path \o <<"?">> \o JoinFields(r.query)

C1v == <<"c1">>
C2v == <<"c2">>
DENIED == <<"access_denied">>
BLANK == <<>>

Requests ==
    { Req(CALLBACK_PATH, <<<<"code", C1v>>>>),
      Req(CALLBACK_PATH, <<<<"error", DENIED>>>>),
      Req(CALLBACK_PATH, <<<<"code", C1v>>, <<"error", DENIED>>>>),
      Req(CALLBACK_PATH, <<<<"error", DENIED>>, <<"code", C2v>>>>),
      Req(CALLBACK_PATH, <<<<"code", BLANK>>, <<"code", C2v>>>>),
      Req(CALLBACK_PATH, <<<<"code", BLANK>>>>),
      Req(CALLBACK_PATH, <<<<"state", <<"s1">>>>>>),
      Req(<<"/x", "/oauth", "/callback">>, <<<<"code", C2v>>>>),
      Req(<<"/other">>, <<<<"next", CALLBACK_PATH>>>>),
      Req(<<"/other">>, <<<<"code", C1v>>>>) }

NoReq == Req(<<>>, <<>>)

----------------------------------------------------------------------------
(* CallbackHandler.do_GET: parsing *)

\* urllib.parse.urlparse(self.path).query: what follows the first "?"
urlparse_query(raw) ==
    LET k == FirstIndex(raw, "?", 1)
    IN  IF k = 0 THEN <<>> ELSE Drop(raw, k)

\* one field of the query string as <<name, value>>; value is blank when
\* there is no "=" or nothing after it
ParseField(f) ==
    LET k == FirstIndex(f, "=", 1)
    IN  IF k = 0 THEN <<f, <<>>>>
        ELSE <<SubSeq(f, 1, k - 1), Drop(f, k)>>

\* parse_qs as it would be with keep_blank_values=True
parse_qs_KeepBlank(q) ==
    LET fields == IF q = <<>> THEN <<>> ELSE Split(q, "&")
    IN  [i \in 1..Len(fields) |-> ParseField(fields[i])]

\* urllib.parse.parse_qs with its defaults: fields split on "&", fields
\* with a blank value dropped (keep_blank_values=False); the result keeps
\* the fields in order, so params[name] is the list of name's values
parse_qs(q) ==
    LET fields == IF q = <<>> THEN <<>> ELSE Split(q, "&")
        pairs == [i \in 1..Len(fields) |-> ParseField(fields[i])]
    IN  SelectSeq(pairs, LAMBDA p : p[2] # <<>>)

\* `name in params`
InParams(name, params) ==
    \E i \in 1..Len(params) : params[i][1] = <<name>>

\* params[name][0]
FirstValue(name, params) ==
    SelectSeq(params, LAMBDA p : p[1] = <<name>>)[1][2]

\* line 34: '/oauth/callback' in self.path
IsCallbackRequest(raw) == Contains(CALLBACK_PATH, raw)

----------------------------------------------------------------------------
(* Listener thread: start_callback_server and CallbackHandler.do_GET *)

Logged(r, status) == [req |-> r, status |-> status]

\* lines 146 and 271-272: the Listener is a daemon thread, it runs only
\* while main() has not returned (sys.exit ends the process)
ProcessAlive == exit_code = None

\* line 90: socketserver.TCPServer(("", REDIRECT_PORT), ...) binds the port.
\* A bind failure raises OSError in the Listener thread only: nothing
\* catches it and the thread (a daemon) ends, main() is not told.
ListenerBind ==
    /\ ProcessAlive
    /\ lpc = "bind"
    /\ lpc' = IF port_free THEN "serving" ELSE "dead"
    /\ UNCHANGED <<auth_code, server_stopped, cur, log, port_free, secrets>>
    /\ UNCHANGED main_vars

\* the accept loop as `while True`
ListenerContinues_Always == TRUE

\* line 93: while not server_stopped
ListenerContinues == ~server_stopped

\* line 93, loop condition false: the accept loop ends
ListenerExit ==
    /\ ProcessAlive
    /\ lpc = "serving"
    /\ ~ListenerContinues
    /\ lpc' = "exited"
    /\ UNCHANGED <<auth_code, server_stopped, cur, log, port_free, secrets>>
    /\ UNCHANGED main_vars

\* the assignment of line 40 without the `global` of line 32: the code
\* stays in a local of do_GET
StoreCode_LocalOnly(params) == None

\* lines 39-40: the code branch stores the code
StoreCode(params) == Some(FirstValue("code", params))

\* `server_stopped = True` dedented so that it runs after the if/elif
DoGET_Neither_Stops(r) ==
    /\ log' = Append(log, Logged(r, 0))
    /\ server_stopped' = TRUE
    /\ UNCHANGED <<auth_code, cur, lpc>>

\* lines 39-77, neither `code` nor `error` in params: do_GET returns
\* without sending a response (status 0) and without touching the globals
DoGET_Neither(r) ==
    /\ log' = Append(log, Logged(r, 0))
    /\ UNCHANGED <<auth_code, server_stopped, cur, lpc>>

\* lines 93-95 and 31-80: httpd.handle_request() takes one request r and
\* runs do_GET on it. The code branch is left after line 40 (auth_code is
\* written) and finished by DoGET_SendSuccess, because main() reads the
\* two globals in between; every other branch is one step.
\* A callback request with neither parameter sends no response (status 0).
DoGET(r) ==
    /\ ProcessAlive
    /\ lpc = "serving"
    /\ ListenerContinues
    /\ Len(log) < MaxRequests
    /\ LET raw == RawPath(r)
           params == parse_qs(urlparse_query(raw))
       IN  IF IsCallbackRequest(raw)
           THEN IF InParams("code", params)
                THEN /\ auth_code' = StoreCode(params)
                     /\ cur' = r
                     /\ lpc' = "code_set"
                     /\ UNCHANGED <<server_stopped, log>>
                ELSE IF InParams("error", params)
                THEN /\ log' = Append(log, Logged(r, 400))
                     /\ server_stopped' = TRUE
                     /\ UNCHANGED <<auth_code, cur, lpc>>
                ELSE DoGET_Neither(r)
           ELSE /\ log' = Append(log, Logged(r, 404))
                /\ UNCHANGED <<auth_code, server_stopped, cur, lpc>>
    /\ UNCHANGED <<port_free, secrets>>
    /\ UNCHANGED main_vars

\* lines 43-58: the success page is sent, then server_stopped = True
DoGET_SendSuccess ==
    /\ ProcessAlive
    /\ lpc = "code_set"
    /\ log' = Append(log, Logged(cur, 200))
    /\ server_stopped' = TRUE
    /\ cur' = NoReq
    /\ lpc' = "serving"
    /\ UNCHANGED <<auth_code, port_free, secrets>>
    /\ UNCHANGED main_vars

HandleRequest == \E r \in Requests : DoGET(r)

Listener == ListenerBind \/ HandleRequest \/ DoGET_SendSuccess \/ ListenerExit

----------------------------------------------------------------------------
(* Token endpoint responses and output encoding *)

timeout == 300            \* line 157
SleepSeconds == 1         \* line 166
DefaultExpiresIn == 3600  \* line 202

\* tokens and credentials as byte strings
AT1 == <<65, 84, 49>>
RT1 == <<82, 84, 49>>
CLIENT_ID == <<105, 100>>
CLIENT_SECRET == <<115>>

Body(error, description, access, refresh, expires) ==
    [error |-> error, error_description |-> description,
     access_token |-> access, refresh_token |-> refresh, expires_in |-> expires]

NoBody == Body(None, None, None, None, None)

Transport == [kind |-> "transport", status |-> 0, reason |-> "", body |-> NoBody]
Http(status, reason, body) ==
    [kind |-> "http", status |-> status, reason |-> reason, body |-> body]

\* what the token endpoint may answer to the POST of line 186
TokenResponses ==
    { Transport,
      Http(200, "OK", Body(None, None, Some(AT1), Some(RT1), Some(3600))),
      Http(200, "OK", Body(None, None, Some(AT1), None, None)),
      Http(200, "OK", Body(Some("invalid_grant"), None, None, None, None)),
      Http(200, "OK", Body(Some("invalid_grant"), Some("Bad Request"),
                           None, None, None)),
      Http(400, "Bad Request", Body(Some("invalid_grant"), None, None, None, None)),
      Http(401, "Unauthorized", Body(Some("invalid_client"), Some("Unauthorized"),
                                     None, None, None)),
      Http(200, "OK", NoBody),
      Http(500, "Internal Server Error", NoBody) }

\* response.raise_for_status(): HTTPError for 4xx and 5xx
RaisesForStatus(status) == status >= 400 /\ status < 600

\* str(e) of the RequestException caught at line 190: the status line of
\* the response, never its body
ExceptionText(resp) ==
    IF resp.kind = "transport" THEN <<"ConnectionError">>
    ELSE <<"HTTPError", resp.reason, "for url:", "https://oauth2.googleapis.com/token">>

\* base64.b64encode on a byte string: sextet values 0..63, 64 is the pad "="
RECURSIVE b64encode(_)
b64encode(s) ==
    IF s = <<>> THEN <<>>
    ELSE LET n == Len(s)
             b1 == s[1]
             b2 == IF n >= 2 THEN s[2] ELSE 0
             b3 == IF n >= 3 THEN s[3] ELSE 0
             v == b1 * 65536 + b2 * 256 + b3
         IN  << v \div 262144,
                (v \div 4096) % 64,
                IF n >= 2 THEN (v \div 64) % 64 ELSE 64,
                IF n >= 3 THEN v % 64 ELSE 64 >>
             \o (IF n > 3 THEN b64encode(Drop(s, 3)) ELSE <<>>)

FileNames == {"config", "access", "refresh", "client_id", "client_secret"}
NoFiles == [f \in FileNames |-> None]
OldContent == <<0, 0, 0, 0, 0>>
OldFiles == [f \in FileNames |-> Some(OldContent)]

----------------------------------------------------------------------------
(* main(): the Orchestrator *)

\* a bare `return`: sys.exit(None) ends the process with status 0
Fail_BareReturn(at, text) ==
    /\ pc' = at
    /\ message' = text
    /\ exit_code' = Some(0)

\* print(...); return 1
Fail(at, text) ==
    /\ pc' = at
    /\ message' = text
    /\ exit_code' = Some(1)

\* lines 102-119 (and 121-143): read the client credentials
LoadCredentials ==
    /\ pc = "load"
    /\ IF secrets = "missing"
       THEN Fail("config_error", <<"Client secret file not found">>)
       ELSE IF secrets = "malformed"
       THEN Fail("config_error", <<"Invalid client secret file format">>)
       ELSE /\ pc' = "start_listener"
            /\ UNCHANGED <<message, exit_code>>
    /\ UNCHANGED <<elapsed, naps, browser_opened, posts, response, token_response, files>>
    /\ UNCHANGED <<auth_code, server_stopped, lpc, cur, log, port_free, secrets>>

\* the thread object made but never started
StartListener_NoThread ==
    /\ pc = "start_listener"
    /\ pc' = "open_browser"
    /\ UNCHANGED <<elapsed, naps, browser_opened, posts, response, token_response, message,
                   exit_code, files>>
    /\ UNCHANGED <<auth_code, server_stopped, lpc, cur, log, port_free, secrets>>

\* lines 146-147: Thread(target=start_callback_server, daemon=True).start()
\* returns as soon as the thread runs; the bind of line 90 is the thread's
StartListener ==
    /\ pc = "start_listener"
    /\ lpc' = "bind"
    /\ pc' = "open_browser"
    /\ UNCHANGED <<elapsed, naps, browser_opened, posts, response, token_response, message,
                   exit_code, files>>
    /\ UNCHANGED <<auth_code, server_stopped, cur, log, port_free, secrets>>

\* lines 150-151: webbrowser.open(auth_url)
OpenBrowser ==
    /\ pc = "open_browser"
    /\ browser_opened' = TRUE
    /\ pc' = "start_wait"
    /\ UNCHANGED <<elapsed, naps, posts, response, token_response, message, exit_code, files>>
    /\ UNCHANGED <<auth_code, server_stopped, lpc, cur, log, port_free, secrets>>

\* main() clearing the result cell when it starts to wait
StartWait_ResetsGlobals ==
    /\ pc = "start_wait"
    /\ elapsed' = 0
    /\ naps' = 0
    /\ pc' = "wait_code"
    /\ auth_code' = None
    /\ UNCHANGED <<browser_opened, posts, response, token_response, message, exit_code, files>>
    /\ UNCHANGED <<server_stopped, lpc, cur, log, port_free, secrets>>

\* lines 153-158: start_time = time.time()
StartWait ==
    /\ pc = "start_wait"
    /\ elapsed' = 0
    /\ naps' = 0
    /\ pc' = "wait_code"
    /\ UNCHANGED <<browser_opened, posts, response, token_response, message, exit_code, files>>
    /\ UNCHANGED <<auth_code, server_stopped, lpc, cur, log, port_free, secrets>>

\* line 160, first operand: auth_code is None
WaitReadCode ==
    /\ pc = "wait_code"
    /\ pc' = IF auth_code = None THEN "wait_stopped" ELSE "after_wait"
    /\ UNCHANGED <<elapsed, naps, browser_opened, posts, response, token_response, message,
                   exit_code, files>>
    /\ UNCHANGED <<auth_code, server_stopped, lpc, cur, log, port_free, secrets>>

\* line 160, second operand: not server_stopped
WaitReadStopped ==
    /\ pc = "wait_stopped"
    /\ pc' = IF ~server_stopped THEN "wait_time" ELSE "after_wait"
    /\ UNCHANGED <<elapsed, naps, browser_opened, posts, response, token_response, message,
                   exit_code, files>>
    /\ UNCHANGED <<auth_code, server_stopped, lpc, cur, log, port_free, secrets>>

\* the wait loop without its timeout
TimedOut_Never(e) == FALSE

\* line 161: time.time() - start_time > timeout
TimedOut(e) == e > timeout

\* lines 161-164: the elapsed-time check of the wait loop
WaitCheckTime ==
    /\ pc = "wait_time"
    /\ IF TimedOut(elapsed)
       THEN Fail("timeout", <<"Authorization timeout!", "Please try again.">>)
       ELSE /\ pc' = "wait_sleep"
            /\ UNCHANGED <<message, exit_code>>
    /\ UNCHANGED <<elapsed, naps, browser_opened, posts, response, token_response, files>>
    /\ UNCHANGED <<auth_code, server_stopped, lpc, cur, log, port_free, secrets>>

\* how long one time.sleep(1) may take: at least a second
SleepDurations == {SleepSeconds, LongWake}

\* the elapsed time after a sleep of d seconds; it is read only to be
\* compared with timeout, so it is not followed beyond it
ClockAdd(e, d) == IF e > timeout THEN e ELSE e + d

\* line 166: time.sleep(1)
WaitSleep ==
    /\ pc = "wait_sleep"
    /\ \E d \in SleepDurations :
          /\ d = SleepSeconds => naps < MaxNaps
          /\ elapsed' = ClockAdd(elapsed, d)
          /\ naps' = IF d = SleepSeconds THEN naps + 1 ELSE naps
    /\ pc' = "wait_code"
    /\ UNCHANGED <<browser_opened, posts, response, token_response, message, exit_code, files>>
    /\ UNCHANGED <<auth_code, server_stopped, lpc, cur, log, port_free, secrets>>

\* main() without the check of line 168
NoCodeAfterWait_Never == FALSE

\* line 168: if auth_code is None
NoCodeAfterWait == auth_code = None

\* lines 168-172
AfterWait ==
    /\ pc = "after_wait"
    /\ IF NoCodeAfterWait
       THEN Fail("denied", <<"Authorization failed or was cancelled">>)
       ELSE /\ pc' = "exchange"
            /\ UNCHANGED <<message, exit_code>>
    /\ UNCHANGED <<elapsed, naps, browser_opened, posts, response, token_response, files>>
    /\ UNCHANGED <<auth_code, server_stopped, lpc, cur, log, port_free, secrets>>

\* the POST sending the shortened code that line 172 prints
TokenData_Truncated ==
    [client_id |-> CLIENT_ID, client_secret |-> CLIENT_SECRET,
     code |-> Some(<<>>), grant_type |-> "authorization_code"]

\* lines 177-183: the form fields of the POST (redirect_uri is fixed)
TokenData ==
    [client_id |-> CLIENT_ID, client_secret |-> CLIENT_SECRET,
     code |-> auth_code, grant_type |-> "authorization_code"]

\* lines 185-192: the POST, raise_for_status() and response.json()
ExchangeCode(resp) ==
    /\ pc = "exchange"
    /\ posts' = Append(posts, TokenData)
    /\ IF resp.kind = "transport" \/ RaisesForStatus(resp.status)
       THEN /\ Fail("exchange_failed",
                    <<"Token exchange failed:">> \o ExceptionText(resp))
            /\ UNCHANGED token_response
       ELSE /\ token_response' = Some(resp.body)
            /\ pc' = "check_error"
            /\ UNCHANGED <<message, exit_code>>
    /\ response' = IF resp.kind = "transport" THEN None ELSE Some(resp)
    /\ UNCHANGED <<elapsed, naps, browser_opened, files>>
    /\ UNCHANGED <<auth_code, server_stopped, lpc, cur, log, port_free, secrets>>

PostToken == \E resp \in TokenResponses : ExchangeCode(resp)

\* line 194: 'error' in token_response
HasError(body) == body.error # None

\* lines 194-198
CheckTokenError ==
    /\ pc = "check_error"
    /\ LET body == token_response[1]
       IN  IF HasError(body)
           THEN Fail("token_error",
                     <<"Token exchange error:">> \o body.error
                         \o body.error_description)
           ELSE /\ pc' = "read_tokens"
                /\ UNCHANGED <<message, exit_code>>
    /\ UNCHANGED <<elapsed, naps, browser_opened, posts, response, token_response, files>>
    /\ UNCHANGED <<auth_code, server_stopped, lpc, cur, log, port_free, secrets>>

\* lines 200-208: token_response['access_token'] raises KeyError when the
\* field is missing; nothing catches it and the interpreter exits with 1
ReadTokens ==
    /\ pc = "read_tokens"
    /\ IF token_response[1].access_token = None
       THEN Fail("crashed", <<"KeyError:", "access_token">>)
       ELSE /\ pc' = "persist"
            /\ UNCHANGED <<message, exit_code>>
    /\ UNCHANGED <<elapsed, naps, browser_opened, posts, response, token_response, files>>
    /\ UNCHANGED <<auth_code, server_stopped, lpc, cur, log, port_free, secrets>>

\* line 202: token_response.get('expires_in', 3600)
ExpiresIn(body) ==
    IF body.expires_in = None THEN DefaultExpiresIn ELSE body.expires_in[1]

\* line 248 writing access_token_encoded into the refresh token file
WrittenFiles_CopyPaste(body) ==
    [f \in FileNames |->
        IF f = "config" THEN Some(<<ExpiresIn(body)>>)
        ELSE IF f = "access" THEN Some(b64encode(body.access_token[1]))
        ELSE IF f = "refresh"
             THEN IF body.refresh_token # None /\ body.refresh_token[1] # <<>>
                  THEN Some(b64encode(body.access_token[1]))
                  ELSE files[f]
        ELSE IF f = "client_id" THEN Some(b64encode(CLIENT_ID))
        ELSE Some(b64encode(CLIENT_SECRET))]

\* lines 210-261: the files written. The account config is fixed but for
\* token_expires_at = utcnow() + expires_in, kept here as the offset.
\* Line 244: the refresh token file only `if refresh_token`.
WrittenFiles(body) ==
    [f \in FileNames |->
        IF f = "config" THEN Some(<<ExpiresIn(body)>>)
        ELSE IF f = "access" THEN Some(b64encode(body.access_token[1]))
        ELSE IF f = "refresh"
             THEN IF body.refresh_token # None /\ body.refresh_token[1] # <<>>
                  THEN Some(b64encode(body.refresh_token[1]))
                  ELSE files[f]
        ELSE IF f = "client_id" THEN Some(b64encode(CLIENT_ID))
        ELSE Some(b64encode(CLIENT_SECRET))]

\* lines 231-261
Persist ==
    /\ pc = "persist"
    /\ files' = WrittenFiles(token_response[1])
    /\ pc' = "persisted"
    /\ UNCHANGED <<elapsed, naps, browser_opened, posts, response, token_response, message, exit_code>>
    /\ UNCHANGED <<auth_code, server_stopped, lpc, cur, log, port_free, secrets>>

\* lines 263-269: return 0
Finish ==
    /\ pc = "persisted"
    /\ pc' = "done"
    /\ exit_code' = Some(0)
    /\ UNCHANGED <<elapsed, naps, browser_opened, posts, response, token_response, message, files>>
    /\ UNCHANGED <<auth_code, server_stopped, lpc, cur, log, port_free, secrets>>

Orchestrator ==
    \/ LoadCredentials \/ StartListener \/ OpenBrowser \/ StartWait
    \/ WaitReadCode \/ WaitReadStopped \/ WaitCheckTime \/ WaitSleep
    \/ AfterWait \/ PostToken \/ CheckTokenError \/ ReadTokens
    \/ Persist \/ Finish

----------------------------------------------------------------------------
(* The program *)

Init ==
    /\ auth_code = None
    /\ server_stopped = FALSE
    /\ lpc = "idle"
    /\ cur = NoReq
    /\ log = <<>>
    /\ port_free \in BOOLEAN
    /\ pc = "load"
    /\ secrets \in {"ok", "missing", "malformed"}
    /\ elapsed = 0
    /\ naps = 0
    /\ browser_opened = FALSE
    /\ posts = <<>>
    /\ response = None
    /\ token_response = None
    /\ message = <<>>
    /\ exit_code = None
    /\ files \in {NoFiles, OldFiles}

Next == Listener \/ Orchestrator

Spec == Init /\ [][Next]_vars

\* main() is the process's main thread: it is scheduled, and time.sleep(1)
\* returns. Nothing is assumed of the Listener or of the browser.
FairSpec == Spec /\ WF_vars(Orchestrator)

----------------------------------------------------------------------------
(* Vocabulary of the claims *)

\* the request is on the callback path /oauth/callback
OnCallbackPath(r) == r.path = CALLBACK_PATH

\* the query string the browser sent has a field of this name
HasParam(r, name) == \E i \in 1..Len(r.query) : r.query[i][1] = name

\* the values of that field, in order
ParamValues(r, name) ==
    LET fs == SelectSeq(r.query, LAMBDA f : f[1] = name)
    IN  [i \in 1..Len(fs) |-> fs[i][2]]

NonBlank(vs) == SelectSeq(vs, LAMBDA v : v # BLANK)

\* the requests the Listener has taken so far
Received ==
    {log[i].req : i \in 1..Len(log)} \cup (IF lpc = "code_set" THEN {cur} ELSE {})

\* the CallbackResult as main() can read it from the two globals
Pending == [tag |-> "Pending", value |-> <<>>]
Code(v) == [tag |-> "Code", value |-> v]
Error(v) == [tag |-> "Error", value |-> v]

CallbackResult ==
    IF auth_code # None THEN Code(auth_code[1])
    ELSE IF server_stopped THEN Error(<<>>)
    ELSE Pending

----------------------------------------------------------------------------
(* C1 *)

\* C1 as stated: every handled request on the callback path whose query
\* string has a `code` field was answered 200, left the result Code(first
\* value of the field) and set the stop flag
C1_CodeCallback_AsStated ==
    \A i \in 1..Len(log) :
        LET r == log[i].req
        IN  (OnCallbackPath(r) /\ HasParam(r, "code")) =>
                /\ log[i].status = 200
                /\ CallbackResult = Code(ParamValues(r, "code")[1])
                /\ server_stopped

\* C1 amended: every handled request on the callback path whose query
\* string has a `code` field with a non-blank value was answered 200, left
\* the result Code(first non-blank value) and set the stop flag, with or
\* without an `error` field
C1_CodeCallback ==
    \A i \in 1..Len(log) :
        LET r == log[i].req
            vs == NonBlank(ParamValues(r, "code"))
        IN  (OnCallbackPath(r) /\ vs # <<>>) =>
                /\ log[i].status = 200
                /\ CallbackResult = Code(vs[1])
                /\ server_stopped

C1_Witness ==
    \E i \in 1..Len(log) :
        /\ OnCallbackPath(log[i].req)
        /\ HasParam(log[i].req, "code")
        /\ HasParam(log[i].req, "error")
        /\ log[i].status = 200
        /\ auth_code = Some(C2v)

----------------------------------------------------------------------------
(* C2 *)

\* C2: every handled request on the callback path with an `error` field and
\* no `code` field was answered 400, set the stop flag, and left the result
\* main() can read as Error(value of the field)
C2_ErrorCallback ==
    \A i \in 1..Len(log) :
        LET r == log[i].req
        IN  (OnCallbackPath(r) /\ HasParam(r, "error") /\ ~HasParam(r, "code")) =>
                /\ log[i].status = 400
                /\ server_stopped
                /\ CallbackResult = Error(ParamValues(r, "error")[1])

----------------------------------------------------------------------------
(* C3 *)

\* C3: every handled request whose path is not the callback path was
\* answered 404, and while no request on the callback path has been taken
\* the result is Pending, the stop flag is unset and the accept loop runs
C3_OtherPath ==
    /\ \A i \in 1..Len(log) :
          ~OnCallbackPath(log[i].req) => log[i].status = 404
    /\ (\A r \in Received : ~OnCallbackPath(r)) =>
          /\ CallbackResult = Pending
          /\ ~server_stopped
          /\ lpc # "exited"

----------------------------------------------------------------------------
(* C4 *)

\* the run of main() has ended
Ended == exit_code # None

\* C4: when an error callback (error field, no code) was captured and the
\* run has ended, it ended in the denied state with a message that contains
\* the provider's error string from the callback
C4_DeniedSurfacesError ==
    \A i \in 1..Len(log) :
        LET r == log[i].req
        IN  (log[i].status = 400 /\ ~HasParam(r, "code") /\ Ended) =>
                /\ pc = "denied"
                /\ Contains(ParamValues(r, "error")[1], message)

----------------------------------------------------------------------------
(* C5 *)

FailurePcs ==
    {"config_error", "timeout", "denied", "exchange_failed", "token_error",
     "crashed"}

\* no output file differs from what the run found
FilesUntouched == files \in {NoFiles, OldFiles}

\* C5: a run in a failure state has created or modified no output file, and
\* the files are written only after a code was received, the POST was sent
\* and its response was accepted (parsed, no `error`, an access token)
C5_NoWritesOnFailure ==
    /\ pc \in FailurePcs => FilesUntouched
    /\ ~FilesUntouched =>
          /\ auth_code # None
          /\ Len(posts) = 1
          /\ posts[1].code = auth_code
          /\ token_response # None
          /\ ~HasError(token_response[1])
          /\ token_response[1].access_token # None
          /\ pc \in {"persisted", "done"}

C5_Witness ==
    /\ pc = "token_error"
    /\ auth_code # None
    /\ files = OldFiles
    /\ Contains(<<"invalid_grant">>, message)

----------------------------------------------------------------------------
(* C6 *)

WaitPcs == {"wait_code", "wait_stopped", "wait_time", "wait_sleep", "after_wait"}
BeforeWaitPcs == {"load", "config_error", "start_listener", "open_browser", "start_wait"}

\* main() has left the wait for the callback
WaitOver == pc \notin (BeforeWaitPcs \cup WaitPcs)

\* C6: when no request has reached the callback path, the wait ends only in
\* the timeout failure, never in the token exchange
C6_TimeoutWithoutCallback ==
    (WaitOver /\ \A r \in Received : ~OnCallbackPath(r)) =>
        /\ pc = "timeout"
        /\ posts = <<>>

----------------------------------------------------------------------------
(* C7 *)

\* C7: once the bind of the port has failed the run is over: main() takes
\* no further step (it does not open the browser, does not enter or go on
\* with the wait for a callback)
C7_PortInUseIsFatal ==
    [][lpc = "dead" => (pc' = pc /\ browser_opened' = browser_opened)]_vars

----------------------------------------------------------------------------
(* C8 *)

\* the state of the run's state machine that main() is in
Phase ==
    CASE pc \in {"load", "config_error", "start_listener"} -> "Init"
      [] pc = "open_browser" -> "ListenerStarted"
      [] pc = "start_wait" -> "BrowserLaunched"
      [] pc \in WaitPcs -> "AwaitingCallback"
      [] pc \in {"exchange", "check_error", "read_tokens"} -> "CodeReceived"
      [] pc = "denied" -> "CallbackError"
      [] pc = "timeout" -> "Timeout"
      [] pc \in {"exchange_failed", "token_error", "crashed"} -> "ExchangeFailed"
      [] pc = "persist" -> "TokenExchanged"
      [] pc = "persisted" -> "Persisted"
      [] pc = "done" -> "Done"

PhaseOrder ==
    { <<"Init", "ListenerStarted">>,
      <<"ListenerStarted", "BrowserLaunched">>,
      <<"BrowserLaunched", "AwaitingCallback">>,
      <<"AwaitingCallback", "CodeReceived">>,
      <<"AwaitingCallback", "CallbackError">>,
      <<"AwaitingCallback", "Timeout">>,
      <<"CodeReceived", "TokenExchanged">>,
      <<"CodeReceived", "ExchangeFailed">>,
      <<"TokenExchanged", "Persisted">>,
      <<"Persisted", "Done">> }

\* what being in a state says about the run
PhaseMeaning ==
    /\ Phase \in {"CodeReceived", "TokenExchanged", "Persisted", "Done"} =>
          auth_code # None
    /\ Phase = "CallbackError" => auth_code = None /\ server_stopped
    /\ Phase \in {"TokenExchanged", "Persisted", "Done"} =>
          token_response # None /\ ~HasError(token_response[1])
    /\ exit_code = Some(0) <=> Phase = "Done"
    /\ Phase \in {"CallbackError", "Timeout", "ExchangeFailed"} =>
          exit_code = Some(1)

\* C8: main() moves through the states only along the arrows of the state
\* machine (so none is entered twice, TokenExchanged follows CodeReceived
\* only, and the failure states and Done have no successor), CodeReceived
\* and what follows it are entered only with a code, and Done is the only
\* state that ends the run with success
C8_StateMachine ==
    /\ [][Phase' # Phase => <<Phase, Phase'>> \in PhaseOrder]_vars
    /\ []PhaseMeaning

C8_Witness ==
    /\ Phase = "Done"
    /\ Len(log) = 2
    /\ files # OldFiles

----------------------------------------------------------------------------
(* C9 *)

\* the number of requests the Listener has taken
Taken == Len(log) + (IF lpc = "code_set" THEN 1 ELSE 0)

----------------------------------------------------------------------------
(* C10 *)

\* C10: when a code was posted and the token endpoint's response body has
\* an `error` field, whatever the HTTP status, the run ends in a token
\* exchange failure whose message contains the value of `error`, and of
\* `error_description` when present
C10_TokenErrorSurfaced ==
    (response # None /\ HasError(response[1].body) /\ Ended) =>
        /\ pc \in {"token_error", "exchange_failed"}
        /\ Contains(response[1].body.error, message)
        /\ Contains(response[1].body.error_description, message)

----------------------------------------------------------------------------
(* C11 *)

\* the file holds what this run wrote, not what the run found
Fresh(f) == files[f] # None /\ files[f] # Some(OldContent)

\* C11: the exit code is 0 exactly when the run has reached Done, with the
\* output files written, and it is 1 in every failure state: secrets file
\* missing or malformed, timeout, denied, token exchange failure
C11_ExitCodes ==
    /\ exit_code \in {None, Some(0), Some(1)}
    /\ exit_code = Some(0) <=> pc = "done"
    /\ pc = "done" => \A f \in FileNames \ {"refresh"} : Fresh(f)
    /\ pc \in FailurePcs <=> exit_code = Some(1)
    /\ (secrets # "ok" /\ pc # "load") => pc = "config_error"

C11_Witness ==
    /\ pc = "config_error"
    /\ secrets = "malformed"
    /\ exit_code = Some(1)

----------------------------------------------------------------------------
(* C12 *)

\* base64.b64decode of a sequence of sextets with "=" padding (64)
RECURSIVE b64decode(_)
b64decode(t) ==
    IF Len(t) < 4 THEN <<>>
    ELSE LET s3 == IF t[3] = 64 THEN 0 ELSE t[3]
             s4 == IF t[4] = 64 THEN 0 ELSE t[4]
             v == t[1] * 262144 + t[2] * 4096 + s3 * 64 + s4
             bytes == <<v \div 65536, (v \div 256) % 256, v % 256>>
             n == IF t[3] = 64 THEN 1 ELSE IF t[4] = 64 THEN 2 ELSE 3
         IN  SubSeq(bytes, 1, n) \o b64decode(Drop(t, 4))

\* the token response holds a refresh token
HasRefreshToken(body) == body.refresh_token # None

----------------------------------------------------------------------------
(* C13 *)

\* a malformed callback: on the callback path, neither `code` nor `error`
Malformed(r) ==
    OnCallbackPath(r) /\ ~HasParam(r, "code") /\ ~HasParam(r, "error")

\* this step is the Listener finishing a malformed callback
HandlesMalformed ==
    /\ Len(log') = Len(log) + 1
    /\ Malformed(log'[Len(log')].req)

\* main() has left the wait by a code or error callback that came after
\* the i-th request, or by the timeout
LeftByCallbackOrTimeout(i) ==
    \/ pc = "timeout"
    \/ \E j \in (i + 1)..Len(log) : log[j].status \in {200, 400}
    \/ lpc = "code_set"

\* C13: a malformed callback leaves the result Pending and the stop flag
\* unset, the Listener stays in its accept loop, and after it main() leaves
\* the wait only by a later code or error callback or by the timeout
C13_MalformedCallback ==
    /\ [][HandlesMalformed =>
            /\ UNCHANGED shared_vars
            /\ CallbackResult' = Pending
            /\ lpc' = "serving"
            /\ ListenerContinues']_vars
    /\ [](\A i \in 1..Len(log) :
            (Malformed(log[i].req) /\ WaitOver) => LeftByCallbackOrTimeout(i))

C13_Witness ==
    /\ Len(log) = 2
    /\ Malformed(log[1].req)
    /\ log[2].status = 400
    /\ pc = "denied"

----------------------------------------------------------------------------
(* C14 *)

\* C14 as stated, for a port that can be bound: whenever the browser has
\* been opened, the Listener has bound its port and is (or was) listening
C14_BoundBeforeBrowser ==
    (port_free /\ browser_opened) => lpc \in {"serving", "code_set", "exited"}

\* C14 amended: whenever the browser has been opened, the Listener thread
\* has been started; its bind may still be pending, or have failed
C14_StartedBeforeBrowser ==
    browser_opened => lpc # "idle"

C14_Witness ==
    /\ browser_opened
    /\ lpc = "bind"
    /\ port_free
    /\ pc \in WaitPcs

----------------------------------------------------------------------------
(* C15 *)

\* C15: every request the Listener has handled was answered 200 (code
\* callback), 400 (error callback) or 404 (anything else, a callback with
\* neither `code` nor `error` included)
C15_EveryRequestAnswered ==
    \A i \in 1..Len(log) :
        /\ log[i].status \in {200, 400, 404}
        /\ Malformed(log[i].req) => log[i].status = 404

----------------------------------------------------------------------------
(* C16 *)

\* the code value a request carries for the Listener to capture
CarriedCode(r) == NonBlank(ParamValues(r, "code"))

\* C16: at most one POST is ever sent (none is repeated after a failure),
\* it is sent only once a code is in the result cell, and its `code` field
\* is that code, the value the Listener took from a request it received
C16_SinglePost ==
    /\ Len(posts) <= 1
    /\ posts # <<>> =>
          /\ auth_code # None
          /\ posts[1].code = auth_code
          /\ \E r \in Received :
                /\ CarriedCode(r) # <<>>
                /\ posts[1].code = Some(CarriedCode(r)[1])

C16_Witness ==
    /\ pc = "exchange_failed"
    /\ Len(posts) = 1
    /\ posts[1].code = Some(C2v)

----------------------------------------------------------------------------
(* C17 *)

\* a step of main() (every statement of main() moves its position)
MainStep == pc' # pc

\* a step of the Listener thread
ListenerStep == pc' = pc /\ <<lpc, cur, log>>' # <<lpc, cur, log>>

\* C17: no step of main() changes auth_code or server_stopped (nor the
\* Listener's request in hand and its answers), only steps of the Listener
\* thread change the two globals, and a step of the Listener changes
\* nothing else that main() owns
C17_SingleWriter ==
    [][/\ MainStep => (UNCHANGED shared_vars /\ UNCHANGED <<cur, log>>)
       /\ shared_vars' # shared_vars => ListenerStep
       /\ ListenerStep => UNCHANGED main_vars]_vars

C17_Witness ==
    /\ pc = "done"
    /\ auth_code = Some(C1v)
    /\ server_stopped
    /\ lpc = "exited"

----------------------------------------------------------------------------
(* C18 *)

CodePageServed == \E i \in 1..Len(log) : log[i].status = 200
ErrorPageServed == \E i \in 1..Len(log) : log[i].status = 400

\* C18: the code is in the result cell whenever the Listener is between
\* its two writes or has stopped after a code callback, and main() is in
\* the denied state ('authorization failed or was cancelled') only without
\* a code, after an error callback, and never after a code callback
C18_CodeBeforeStop ==
    /\ lpc = "code_set" => auth_code # None /\ ~server_stopped
    /\ CodePageServed => auth_code # None /\ server_stopped
    /\ pc = "denied" =>
          /\ auth_code = None
          /\ ErrorPageServed
          /\ ~CodePageServed
          /\ lpc # "code_set"

C18_Witness ==
    /\ pc = "exchange"
    /\ server_stopped
    /\ CodePageServed
    /\ posts = <<>>

----------------------------------------------------------------------------
(* C19 *)

\* C19: when main() has ended in the timeout, the result is still Pending,
\* the Listener has not stopped, and no success or failure page was served
C19_TimeoutConsistent ==
    pc = "timeout" =>
        /\ CallbackResult = Pending
        /\ ~server_stopped
        /\ ~CodePageServed
        /\ ~ErrorPageServed

----------------------------------------------------------------------------
(* C20 *)

\* C20: whenever main() is in the wait for the callback it eventually
\* leaves it, into CodeReceived, CallbackError or Timeout
C20_WaitEnds ==
    (pc \in WaitPcs) ~> (pc \in {"exchange", "denied", "timeout"})

C20_Witness ==
    /\ pc = "timeout"
    /\ lpc = "dead"
    /\ elapsed > timeout

====
